---- MODULE Spec2Model ----
(***************************************************************************)
(* bf2x.py: Brainfuck -> multi-target transpiler.                          *)
(*                                                                         *)
(* A source text is a sequence of one-character strings.  A token is the   *)
(* pair <<op, count>> of the Python tuple (op, count).  An emitted program *)
(* is the list L of its lines; a line is the record                        *)
(*   [ind |-> indentation level, s |-> the f-string template, n |-> count] *)
(* standing for the text ('    ' * ind) + s with {n} replaced by n.        *)
(***************************************************************************)
EXTENDS Integers, Sequences, FiniteSets, TLC

VARIABLES src, stdin, choice, pc, ops, folded, toks, queue, code, calls, ran,
          jobs, m

vars == <<src, stdin, choice, pc, ops, folded, toks, queue, code, calls, ran,
          jobs, m>>

(***************************************************************************)
(* Bounds of the model.                                                    *)
(***************************************************************************)
MaxLen == 3
MaxFoldLen == 4
MaxDesugarLen == 7
MaxExecLen == 3
MaxEquivLen == 4
MaxDp == 3
MaxOut == 3

Max(a, b) == IF a >= b THEN a ELSE b

\* All sequences over alphabet A of length at most k.
Strings(A, k) == UNION {[1..len -> A] : len \in 0..k}

\* c repeated k times.
Rep(c, k) == [i \in 1..k |-> c]

(***************************************************************************)
(* Front-end                                                               *)
(***************************************************************************)
BF_OPS == {">", "<", "+", "-", ".", ",", "[", "]"}

sanitize(s) == SelectSeq(s, LAMBDA c : c \in BF_OPS)

\* the inner "while j < n and ops[j] == c: j += 1" (positions are 1-based here)
ScanRun(s, c, j) ==
  LET stops == {k \in j..Len(s) : s[k] # c} IN
  IF stops = {} THEN Len(s) + 1
  ELSE CHOOSE k \in stops : \A x \in stops : k <= x

RECURSIVE FoldLoop(_, _, _)
FoldLoop(s, i, out) ==
  IF i > Len(s) THEN out
  ELSE LET c == s[i] IN
       IF c \in {"+", "-", "<", ">"}
       THEN LET j == ScanRun(s, c, i + 1) IN
            FoldLoop(s, j, Append(out, <<c, j - i>>))
       ELSE FoldLoop(s, i + 1, Append(out, <<c, 1>>))

\* mutant: the run length is taken one short (j - i - 1)
RECURSIVE FoldLoopShort(_, _, _)
FoldLoopShort(s, i, out) ==
  IF i > Len(s) THEN out
  ELSE LET c == s[i] IN
       IF c \in {"+", "-", "<", ">"}
       THEN LET j == ScanRun(s, c, i + 1) IN
            FoldLoopShort(s, j, Append(out, <<c, Max(1, j - i - 1)>>))
       ELSE FoldLoopShort(s, i + 1, Append(out, <<c, 1>>))

fold_runs_short(s) == FoldLoopShort(s, 1, <<>>)

\* mutant: every operator is emitted as its own token, runs are not coalesced
fold_runs_single(s) == [i \in 1..Len(s) |-> <<s[i], 1>>]

fold_runs(s) == FoldLoop(s, 1, <<>>)

RECURSIVE DesugarLoop(_, _, _)
DesugarLoop(tokens, i, out) ==
  IF i > Len(tokens) THEN out
  ELSE IF /\ i + 2 <= Len(tokens)
          /\ tokens[i] = <<"[", 1>>
          /\ tokens[i + 1] = <<"-", 1>>
          /\ tokens[i + 2] = <<"]", 1>>
       THEN DesugarLoop(tokens, i + 3, Append(out, <<"CLR", 1>>))
       ELSE DesugarLoop(tokens, i + 1, Append(out, tokens[i]))

\* mutant: the decrement's count is not compared, so [--] collapses too
RECURSIVE DesugarLoopAnyCount(_, _, _)
DesugarLoopAnyCount(tokens, i, out) ==
  IF i > Len(tokens) THEN out
  ELSE IF /\ i + 2 <= Len(tokens)
          /\ tokens[i] = <<"[", 1>>
          /\ tokens[i + 1][1] = "-"
          /\ tokens[i + 2] = <<"]", 1>>
       THEN DesugarLoopAnyCount(tokens, i + 3, Append(out, <<"CLR", 1>>))
       ELSE DesugarLoopAnyCount(tokens, i + 1, Append(out, tokens[i]))

desugar_any_count(tokens) == DesugarLoopAnyCount(tokens, 1, <<>>)

\* mutant: the middle token of the window is not compared, so [>] collapses too
RECURSIVE DesugarLoopAnyBody(_, _, _)
DesugarLoopAnyBody(tokens, i, out) ==
  IF i > Len(tokens) THEN out
  ELSE IF /\ i + 2 <= Len(tokens)
          /\ tokens[i] = <<"[", 1>>
          /\ tokens[i + 2] = <<"]", 1>>
       THEN DesugarLoopAnyBody(tokens, i + 3, Append(out, <<"CLR", 1>>))
       ELSE DesugarLoopAnyBody(tokens, i + 1, Append(out, tokens[i]))

desugar_any_body(tokens) == DesugarLoopAnyBody(tokens, 1, <<>>)

desugar(tokens) == DesugarLoop(tokens, 1, <<>>)

(***************************************************************************)
(* Emitters                                                                *)
(***************************************************************************)
\* w(s): L.append(s), a line written as is
W(s) == [ind |-> 0, s |-> s, n |-> 0]

\* e(s): L.append(('    ' * ind) + s); n is the value formatted into {n}
E(ind, s, n) == [ind |-> ind, s |-> s, n |-> n]

\* what one iteration of an emitter's "for op, n in tokens" does:
\* the lines it appends and the value of ind after it
Put1(ind, s, n, ind2) == [L |-> <<E(ind, s, n)>>, ind |-> ind2]
Put0(ind2) == [L |-> <<>>, ind |-> ind2]

\* has_in = any(op == ',' for op, _ in tokens)
HasIn(tokens) == \E i \in 1..Len(tokens) : tokens[i][1] = ","

python_tok(op, n, ind) ==
  CASE op = ">" -> Put1(ind, "dp += {n}", n, ind)
    [] op = "<" -> Put1(ind, "dp -= {n}", n, ind)
    [] op = "+" -> Put1(ind, "tape[dp] = (tape[dp] + {n}) & 255", n, ind)
    [] op = "-" -> Put1(ind, "tape[dp] = (tape[dp] - {n}) & 255", n, ind)
    [] op = "." -> IF n = 1 THEN Put1(ind, "out.append(tape[dp])", 0, ind)
                   ELSE Put1(ind, "for _ in range({n}): out.append(tape[dp])", n, ind)
    [] op = "," -> IF n = 1 THEN Put1(ind, "tape[dp] = getchar()", 0, ind)
                   ELSE Put1(ind, "for _ in range({n}): tape[dp] = getchar()", n, ind)
    [] op = "CLR" -> Put1(ind, "tape[dp] = 0", 0, ind)
    [] op = "[" -> Put1(ind, "while tape[dp] != 0:", 0, ind + 1)
    [] op = "]" -> Put0(Max(0, ind - 1))
    [] OTHER -> Put0(ind)

go_tok(op, n, ind, has_in) ==
  CASE op = ">" -> Put1(ind, "dp += {n}", n, ind)
    [] op = "<" -> Put1(ind, "dp -= {n}", n, ind)
    [] op = "+" -> Put1(ind, "tape[dp] = byte(int(tape[dp]+byte({n})) & 255)", n, ind)
    [] op = "-" -> Put1(ind, "tape[dp] = byte(int(tape[dp]-byte({n})) & 255)", n, ind)
    [] op = "." -> IF n = 1 THEN Put1(ind, "out.WriteByte(tape[dp])", 0, ind)
                   ELSE Put1(ind, "for i:=0; i<{n}; i++ { out.WriteByte(tape[dp]) }", n, ind)
    [] op = "," /\ has_in ->
                   IF n = 1 THEN Put1(ind, "tape[dp] = getchar()", 0, ind)
                   ELSE Put1(ind, "for i:=0; i<{n}; i++ { tape[dp] = getchar() }", n, ind)
    [] op = "CLR" -> Put1(ind, "tape[dp] = 0", 0, ind)
    [] op = "[" -> Put1(ind, "for tape[dp] != 0 {", 0, ind + 1)
    [] op = "]" -> Put1(Max(1, ind - 1), "}", 0, Max(1, ind - 1))
    [] OTHER -> Put0(ind)

cpp_tok(op, n, ind, has_in) ==
  CASE op = ">" -> Put1(ind, "dp += {n};", n, ind)
    [] op = "<" -> Put1(ind, "dp -= {n};", n, ind)
    [] op = "+" -> Put1(ind, "tape[dp] = (tape[dp] + {n}) & 255;", n, ind)
    [] op = "-" -> Put1(ind, "tape[dp] = (tape[dp] - {n}) & 255;", n, ind)
    [] op = "." -> IF n = 1 THEN Put1(ind, "std::cout.put((char)tape[dp]);", 0, ind)
                   ELSE Put1(ind, "for(int i=0;i<{n};++i) std::cout.put((char)tape[dp]);", n, ind)
    [] op = "," /\ has_in ->
                   IF n = 1
                   THEN Put1(ind, "int c = std::cin.get(); tape[dp] = (c==EOF?0:(unsigned char)c);", 0, ind)
                   ELSE Put1(ind, "for(int i=0;i<{n};++i){ int c=std::cin.get(); tape[dp]=(c==EOF?0:(unsigned char)c); }", n, ind)
    [] op = "CLR" -> Put1(ind, "tape[dp] = 0;", 0, ind)
    [] op = "[" -> Put1(ind, "while(tape[dp] != 0){", 0, ind + 1)
    [] op = "]" -> Put1(Max(1, ind - 1), "}", 0, Max(1, ind - 1))
    [] OTHER -> Put0(ind)

csharp_tok(op, n, ind, has_in) ==
  CASE op = ">" -> Put1(ind, "dp += {n};", n, ind)
    [] op = "<" -> Put1(ind, "dp -= {n};", n, ind)
    [] op = "+" -> Put1(ind, "tape[dp] = (byte)((tape[dp] + {n}) & 255);", n, ind)
    [] op = "-" -> Put1(ind, "tape[dp] = (byte)((tape[dp] - {n}) & 255);", n, ind)
    [] op = "." -> IF n = 1 THEN Put1(ind, "stdout.WriteByte(tape[dp]);", 0, ind)
                   ELSE Put1(ind, "for (int i=0;i<{n};i++) stdout.WriteByte(tape[dp]);", n, ind)
    [] op = "," /\ has_in ->
                   IF n = 1
                   THEN Put1(ind, "int c = input.ReadByte(); tape[dp] = (byte)(c==-1?0:c);", 0, ind)
                   ELSE Put1(ind, "for (int i=0;i<{n};i++) { int c = input.ReadByte(); tape[dp] = (byte)(c==-1?0:c); }", n, ind)
    [] op = "CLR" -> Put1(ind, "tape[dp] = 0;", 0, ind)
    [] op = "[" -> Put1(ind, "while (tape[dp] != 0) {", 0, ind + 1)
    [] op = "]" -> Put1(Max(1, ind - 1), "}", 0, Max(1, ind - 1))
    [] OTHER -> Put0(ind)

lua_tok(op, n, ind) ==
  CASE op = ">" -> Put1(ind, "dp = dp + {n}", n, ind)
    [] op = "<" -> Put1(ind, "dp = dp - {n}", n, ind)
    [] op = "+" -> Put1(ind, "tape[dp] = (tape[dp] + {n}) % 256", n, ind)
    [] op = "-" -> Put1(ind, "tape[dp] = (tape[dp] - {n}) % 256", n, ind)
    [] op = "." -> IF n = 1 THEN Put1(ind, "io.write(string.char(tape[dp]))", 0, ind)
                   ELSE Put1(ind, "for i=1,{n} do io.write(string.char(tape[dp])) end", n, ind)
    [] op = "," -> IF n = 1 THEN Put1(ind, "tape[dp] = getchar()", 0, ind)
                   ELSE Put1(ind, "for i=1,{n} do tape[dp] = getchar() end", n, ind)
    [] op = "CLR" -> Put1(ind, "tape[dp] = 0", 0, ind)
    [] op = "[" -> Put1(ind, "while tape[dp] ~= 0 do", 0, ind + 1)
    [] op = "]" -> Put1(Max(0, ind - 1), "end", 0, Max(0, ind - 1))
    [] OTHER -> Put0(ind)

ruby_tok(op, n, ind) ==
  CASE op = ">" -> Put1(ind, "dp += {n}", n, ind)
    [] op = "<" -> Put1(ind, "dp -= {n}", n, ind)
    [] op = "+" -> Put1(ind, "tape[dp] = (tape[dp] + {n}) & 0xFF", n, ind)
    [] op = "-" -> Put1(ind, "tape[dp] = (tape[dp] - {n}) & 0xFF", n, ind)
    [] op = "." -> IF n = 1 THEN Put1(ind, "STDOUT.write(tape[dp].chr)", 0, ind)
                   ELSE Put1(ind, "{n}.times { STDOUT.write(tape[dp].chr) }", n, ind)
    [] op = "," -> IF n = 1 THEN Put1(ind, "tape[dp] = getchar", 0, ind)
                   ELSE Put1(ind, "{n}.times { tape[dp] = getchar }", n, ind)
    [] op = "CLR" -> Put1(ind, "tape[dp] = 0", 0, ind)
    [] op = "[" -> Put1(ind, "while tape[dp] != 0", 0, ind + 1)
    [] op = "]" -> Put1(Max(0, ind - 1), "end", 0, Max(0, ind - 1))
    [] OTHER -> Put0(ind)

rust_tok(op, n, ind, has_in) ==
  CASE op = ">" -> Put1(ind, "dp += {n};", n, ind)
    [] op = "<" -> Put1(ind, "dp -= {n};", n, ind)
    [] op = "+" -> Put1(ind, "tape[dp] = tape[dp].wrapping_add({n});", n, ind)
    [] op = "-" -> Put1(ind, "tape[dp] = tape[dp].wrapping_sub({n});", n, ind)
    [] op = "." -> IF n = 1 THEN Put1(ind, "out.write_all(&[tape[dp]]).unwrap();", 0, ind)
                   ELSE Put1(ind, "for _ in 0..{n} { out.write_all(&[tape[dp]]).unwrap(); }", n, ind)
    [] op = "," /\ has_in ->
                   IF n = 1 THEN Put1(ind, "tape[dp] = getchar();", 0, ind)
                   ELSE Put1(ind, "for _ in 0..{n} { tape[dp] = getchar(); }", n, ind)
    [] op = "CLR" -> Put1(ind, "tape[dp] = 0;", 0, ind)
    [] op = "[" -> Put1(ind, "while tape[dp] != 0 {", 0, ind + 1)
    [] op = "]" -> Put1(Max(1, ind - 1), "}", 0, Max(1, ind - 1))
    [] OTHER -> Put0(ind)

Tok(lang, op, n, ind, has_in) ==
  CASE lang = "python" -> python_tok(op, n, ind)
    [] lang = "go"     -> go_tok(op, n, ind, has_in)
    [] lang = "cpp"    -> cpp_tok(op, n, ind, has_in)
    [] lang = "csharp" -> csharp_tok(op, n, ind, has_in)
    [] lang = "lua"    -> lua_tok(op, n, ind)
    [] lang = "ruby"   -> ruby_tok(op, n, ind)
    [] lang = "rust"   -> rust_tok(op, n, ind, has_in)

\* the emitters' "for op, n in tokens" loop: the state after the tokens from
\* position i on, started with indentation ind and lines L
RECURSIVE EmitLoop(_, _, _, _, _)
EmitLoop(lang, tokens, i, ind, L) ==
  IF i > Len(tokens) THEN [L |-> L, ind |-> ind]
  ELSE LET r == Tok(lang, tokens[i][1], tokens[i][2], ind, HasIn(tokens)) IN
       EmitLoop(lang, tokens, i + 1, r.ind, L \o r.L)

emit_python(tokens) ==
  LET head == << W("import sys"),
                 W("tape = bytearray(300000)"), W("dp = 0"), W("out = []"),
                 W(""),
                 W("def getchar():"),
                 W("    b = sys.stdin.buffer.read(1)"),
                 W("    return b[0] if b else 0"),
                 W("") >>
      r == EmitLoop("python", tokens, 1, 0, head)
  IN  r.L \o << W("sys.stdout.buffer.write(bytes(out))"), W("") >>

emit_go(tokens) ==
  LET has_in == HasIn(tokens)
      head == << W("package main"), W(""), W("import ("), W("    \"bufio\"") >>
              \o (IF has_in THEN << W("    \"io\"") >> ELSE << >>)
              \o << W("    \"os\""), W(")"), W(""),
                    W("func main(){"),
                    W("    tape := make([]byte, 300000)"),
                    W("    dp := 0"),
                    W("    out := bufio.NewWriter(os.Stdout)"),
                    W("    defer out.Flush()") >>
              \o (IF has_in
                  THEN << W("    in := bufio.NewReader(os.Stdin)"),
                          W("    getchar := func() byte {"),
                          W("        b, err := in.ReadByte()"),
                          W("        if err != nil { if err == io.EOF { return 0 }; return 0 }"),
                          W("        return b"),
                          W("    }") >>
                  ELSE << >>)
      r == EmitLoop("go", tokens, 1, 1, head)
  IN  r.L \o << W("}"), W("") >>

emit_cpp(tokens) ==
  LET head == << W("#include <iostream>"),
                 W("int main(){"),
                 W("    static unsigned char tape[300000] = {0};"),
                 W("    size_t dp = 0;"),
                 W("    std::ios::sync_with_stdio(false); std::cin.tie(nullptr);") >>
      r == EmitLoop("cpp", tokens, 1, 1, head)
  IN  r.L \o << E(r.ind, "return 0;", 0), W("}"), W("") >>

emit_csharp(tokens) ==
  LET has_in == HasIn(tokens)
      head == << W("using System;"),
                 W("using System.IO;"),
                 W("class Program { static void Main(){"),
                 W("    byte[] tape = new byte[300000]; int dp = 0;") >>
              \o (IF has_in THEN << W("    Stream input = Console.OpenStandardInput();") >>
                  ELSE << >>)
              \o << W("    var stdout = Console.OpenStandardOutput();") >>
      r == EmitLoop("csharp", tokens, 1, 1, head)
  IN  r.L \o << W("}}"), W("") >>

emit_lua(tokens) ==
  LET has_in == HasIn(tokens)
      head == << W("local tape = {} for i=1,300000 do tape[i]=0 end"),
                 W("local dp = 1"),
                 IF has_in
                 THEN W("local function getchar() local c=io.read(1); if c==nil then return 0 else return string.byte(c) end end")
                 ELSE W("local function getchar() return 0 end") >>
      r == EmitLoop("lua", tokens, 1, 0, head)
  IN  r.L \o << W("") >>

emit_ruby(tokens) ==
  LET has_in == HasIn(tokens)
      head == << W("tape = Array.new(300000, 0)"), W("dp = 0"),
                 IF has_in
                 THEN W("def getchar; c=$stdin.read(1); c ? c.ord : 0; end")
                 ELSE W("def getchar; 0; end") >>
      r == EmitLoop("ruby", tokens, 1, 0, head)
  IN  r.L \o << W("") >>

emit_rust(tokens) ==
  LET has_in == HasIn(tokens)
      head == << W("use std::io::{self, Read, Write};"),
                 W("fn main(){"),
                 W("    let mut tape = [0u8; 300000];"),
                 W("    let mut dp: usize = 0;"),
                 W("    let mut out = io::BufWriter::new(io::stdout());") >>
              \o (IF has_in
                  THEN << W("    let mut stdin = io::stdin();"),
                          W("    let mut buf = [0u8; 1];"),
                          W("    let mut getchar = || -> u8 { match stdin.read(&mut buf) { Ok(1) => buf[0], _ => 0 } };") >>
                  ELSE << >>)
      r == EmitLoop("rust", tokens, 1, 1, head)
  IN  r.L \o << E(r.ind, "out.flush().unwrap();", 0), W("}"), W("") >>

\* the final value of ind in an emitter's loop (its nesting depth), and the
\* floor the emitter clamps it at
IndFloor(lang) == IF lang \in {"python", "lua", "ruby"} THEN 0 ELSE 1

(***************************************************************************)
(* Target registry                                                         *)
(***************************************************************************)
Keys == <<"1", "2", "3", "4", "5", "6", "7", "0">>

TARGETS ==
  [k \in {Keys[i] : i \in 1..Len(Keys)} |->
     CASE k = "1" -> [name |-> "python", ext |-> ".py",  runner |-> TRUE]
       [] k = "2" -> [name |-> "go",     ext |-> ".go",  runner |-> TRUE]
       [] k = "3" -> [name |-> "cpp",    ext |-> ".cpp", runner |-> FALSE]
       [] k = "4" -> [name |-> "csharp", ext |-> ".cs",  runner |-> FALSE]
       [] k = "5" -> [name |-> "lua",    ext |-> ".lua", runner |-> FALSE]
       [] k = "6" -> [name |-> "ruby",   ext |-> ".rb",  runner |-> FALSE]
       [] k = "7" -> [name |-> "rust",   ext |-> ".rs",  runner |-> FALSE]
       [] k = "0" -> [name |-> "all",    ext |-> "",     runner |-> FALSE]]

Names == {"python", "go", "cpp", "csharp", "lua", "ruby", "rust"}

\* TARGETS[key]'s emitter applied to the tokens
Emitter(name, tokens) ==
  CASE name = "python" -> emit_python(tokens)
    [] name = "go"     -> emit_go(tokens)
    [] name = "cpp"    -> emit_cpp(tokens)
    [] name = "csharp" -> emit_csharp(tokens)
    [] name = "lua"    -> emit_lua(tokens)
    [] name = "ruby"   -> emit_ruby(tokens)
    [] name = "rust"   -> emit_rust(tokens)

\* mutant: the fan-out stops one short of the last target
ExpandAllShort == SelectSeq(Keys, LAMBDA k : k \notin {"0", "7"})

\* [k for k in TARGETS if k != "0"]
ExpandAll == SelectSeq(Keys, LAMBDA k : k # "0")

(***************************************************************************)
(* main                                                                    *)
(***************************************************************************)
\* what the user may type at the "> " prompt; "8" is not a key of TARGETS
PickInputs == {"0", "1", "2", "3", "4", "5", "6", "7", "8"}

\* pick_target: loops until the line typed is a key of TARGETS
PickTarget(c) ==
  /\ pc = "pick"
  /\ IF c \in DOMAIN TARGETS
     THEN choice' = c /\ pc' = "read"
     ELSE UNCHANGED <<choice, pc>>
  /\ UNCHANGED <<src, stdin, ops, folded, toks, queue, code, calls, ran, jobs, m>>

\* main: toks = desugar(fold_runs(sanitize(src))), then the dispatch on choice
Compile ==
  /\ pc = "read"
  /\ ops' = sanitize(src)
  /\ folded' = fold_runs(ops')
  /\ toks' = desugar(folded')
  /\ queue' = IF choice = "0" THEN ExpandAll ELSE <<choice>>
  /\ pc' = "emit"
  /\ UNCHANGED <<src, stdin, choice, code, calls, ran, jobs, m>>

\* emit_one(key): nothing for the "all" entry; otherwise the entry's emitter is
\* called once on toks, its text written to <base><suffix><ext>, and the text
\* run when the entry has a runner
emit_one(key) ==
  LET t == TARGETS[key] IN
  IF key = "0"
  THEN UNCHANGED <<code, calls, ran>>
  ELSE /\ calls' = [calls EXCEPT ![key] = @ + 1]
       /\ code' = [code EXCEPT ![t.name] = Emitter(t.name, toks)]
       /\ ran' = IF t.runner THEN Append(ran, t.name) ELSE ran

EmitOne ==
  /\ pc = "emit"
  /\ queue # <<>>
  /\ emit_one(Head(queue))
  /\ queue' = Tail(queue)
  /\ pc' = IF Tail(queue) = <<>> THEN "done" ELSE "emit"
  /\ UNCHANGED <<src, stdin, choice, ops, folded, toks, jobs, m>>

NoCode == [nm \in Names |-> <<>>]
NoCalls == [k \in DOMAIN TARGETS |-> 0]

\* the state of main before line 308 or (at = "read") before line 310
Start(at, c, inputs, ins) ==
  /\ src \in inputs
  /\ stdin \in ins
  /\ choice = c
  /\ pc = at
  /\ ops = <<>> /\ folded = <<>> /\ toks = <<>> /\ queue = <<>>
  /\ code = NoCode
  /\ calls = NoCalls
  /\ ran = <<>>
  /\ jobs = <<>>
  /\ m = <<>>

\* Source texts: the eight operators and one character that is none of them.
MainInputs == Strings(BF_OPS \cup {"x"}, MaxLen)

Init == Start("pick", "", MainInputs, {<<>>})

Next ==
  \/ \E c \in PickInputs : PickTarget(c)
  \/ Compile
  \/ EmitOne

Spec == Init /\ [][Next]_vars

(***************************************************************************)
(* The front-end alone: main from line 310 to line 311                     *)
(***************************************************************************)
FoldInputs == Strings(BF_OPS \cup {"x"}, MaxFoldLen)
DesugarInputs == Strings({"[", "-", "]", "."}, MaxDesugarLen)

InitFront == Start("read", "1", FoldInputs \cup DesugarInputs, {<<>>})

NextFront == Compile

SpecFront == InitFront /\ [][NextFront]_vars

Compiled == pc \notin {"pick", "read"}

(***************************************************************************)
(* C3 and C4: fold_runs                                                    *)
(***************************************************************************)
RECURSIVE CountSum(_)
CountSum(tokens) ==
  IF tokens = <<>> THEN 0
  ELSE (IF Head(tokens)[1] \in {">", "<", "+", "-"} THEN Head(tokens)[2] ELSE 1)
       + CountSum(Tail(tokens))

\* C3: the counts of the move/increment/decrement tokens plus the number of
\* all other tokens add up to the length of the normalized operator string.
FoldLengthConserved == Compiled => CountSum(folded) = Len(ops)

FoldLengthWitness ==
  /\ Compiled
  /\ \E i \in 1..Len(folded) : folded[i][2] >= 2
  /\ \E i \in 1..Len(folded) : folded[i][1] \in {"[", "]", ".", ","}

\* the operator string a token sequence stands for
RECURSIVE Expand(_)
Expand(tokens) ==
  IF tokens = <<>> THEN <<>>
  ELSE Rep(Head(tokens)[1], Head(tokens)[2]) \o Expand(Tail(tokens))

\* C4: one token per maximal run of >, <, + or - with the run's length as
\* its count (the tokens spell the operator string and no two neighbours
\* carry the same run operator); every [, ], . and , is a token of count 1;
\* every count is at least 1.
FoldMaximalRuns ==
  Compiled =>
    /\ Expand(folded) = ops
    /\ \A i \in 1..Len(folded) :
         /\ folded[i][2] >= 1
         /\ folded[i][1] \in {"[", "]", ".", ","} => folded[i][2] = 1
         /\ (i < Len(folded) /\ folded[i][1] \in {">", "<", "+", "-"})
              => folded[i + 1][1] # folded[i][1]

FoldMaximalWitness ==
  /\ Compiled
  /\ \E i \in 1..Len(folded) : folded[i] = <<"+", 3>>
  /\ \E i \in 1..Len(folded) : folded[i] = <<".", 1>>

(***************************************************************************)
(* C2: desugar                                                             *)
(***************************************************************************)
IsTriple(t, i) ==
  /\ i + 2 <= Len(t)
  /\ t[i] = <<"[", 1>> /\ t[i + 1] = <<"-", 1>> /\ t[i + 2] = <<"]", 1>>

Triples(t) == {i \in 1..Len(t) : IsTriple(t, i)}

\* C2: exactly the windows ('[',1),('-',1),(']',1) are replaced, each by one
\* ('CLR',1), and every token outside such a window is copied, in order.
DesugarNarrow ==
  Compiled =>
    LET t == folded
        M == Triples(t)
        Pos(i) == i - 2 * Cardinality({k \in M : k < i})
    IN  /\ Len(toks) = Len(t) - 2 * Cardinality(M)
        /\ \A i \in 1..Len(t) :
             (i - 1 \notin M /\ i - 2 \notin M) =>
               toks[Pos(i)] = IF i \in M THEN <<"CLR", 1>> ELSE t[i]

DesugarNarrowWitness ==
  /\ Compiled
  /\ \E i \in 1..Len(toks) : toks[i] = <<"CLR", 1>>
  /\ \E i \in 1..Len(toks) - 2 :
       toks[i] = <<"[", 1>> /\ toks[i + 1] = <<"-", 2>> /\ toks[i + 2] = <<"]", 1>>

(***************************************************************************)
(* C7: dispatch                                                            *)
(***************************************************************************)
\* C7: with "0" chosen each of the seven concrete emitters has been invoked
\* exactly once when main ends and the "all" entry never; with a concrete key
\* chosen exactly that entry's emitter has been invoked, once.
DispatchExact ==
  /\ calls["0"] = 0
  /\ pc = "done" =>
       \A k \in DOMAIN TARGETS :
         calls[k] = IF k # "0" /\ (choice = "0" \/ choice = k) THEN 1 ELSE 0
  /\ \A nm \in Names :
       (code[nm] # <<>>) <=> (\E k \in DOMAIN TARGETS : TARGETS[k].name = nm /\ calls[k] > 0)

DispatchWitness ==
  /\ pc = "done" /\ choice = "0"
  /\ \A nm \in Names : code[nm] # <<>>

(***************************************************************************)
(* The emitted programs, read as programs of their target languages        *)
(***************************************************************************)
TapeSize == 300000

\* what a line of an emitted program is, from the emitters' templates
Kind(line) ==
  CASE line.s \in {"dp += {n}", "dp += {n};", "dp = dp + {n}"} -> "right"
    [] line.s \in {"dp -= {n}", "dp -= {n};", "dp = dp - {n}"} -> "left"
    [] line.s \in {"tape[dp] = (tape[dp] + {n}) & 255",
                   "tape[dp] = byte(int(tape[dp]+byte({n})) & 255)",
                   "tape[dp] = (tape[dp] + {n}) & 255;",
                   "tape[dp] = (byte)((tape[dp] + {n}) & 255);",
                   "tape[dp] = (tape[dp] + {n}) % 256",
                   "tape[dp] = (tape[dp] + {n}) & 0xFF",
                   "tape[dp] = tape[dp].wrapping_add({n});"} -> "add"
    [] line.s \in {"tape[dp] = (tape[dp] - {n}) & 255",
                   "tape[dp] = byte(int(tape[dp]-byte({n})) & 255)",
                   "tape[dp] = (tape[dp] - {n}) & 255;",
                   "tape[dp] = (byte)((tape[dp] - {n}) & 255);",
                   "tape[dp] = (tape[dp] - {n}) % 256",
                   "tape[dp] = (tape[dp] - {n}) & 0xFF",
                   "tape[dp] = tape[dp].wrapping_sub({n});"} -> "sub"
    [] line.s \in {"out.append(tape[dp])",
                   "out.WriteByte(tape[dp])",
                   "std::cout.put((char)tape[dp]);",
                   "stdout.WriteByte(tape[dp]);",
                   "io.write(string.char(tape[dp]))",
                   "STDOUT.write(tape[dp].chr)",
                   "out.write_all(&[tape[dp]]).unwrap();"} -> "out"
    [] line.s \in {"for _ in range({n}): out.append(tape[dp])",
                   "for i:=0; i<{n}; i++ { out.WriteByte(tape[dp]) }",
                   "for(int i=0;i<{n};++i) std::cout.put((char)tape[dp]);",
                   "for (int i=0;i<{n};i++) stdout.WriteByte(tape[dp]);",
                   "for i=1,{n} do io.write(string.char(tape[dp])) end",
                   "{n}.times { STDOUT.write(tape[dp].chr) }",
                   "for _ in 0..{n} { out.write_all(&[tape[dp]]).unwrap(); }"} -> "outN"
    [] line.s \in {"tape[dp] = getchar()",
                   "int c = std::cin.get(); tape[dp] = (c==EOF?0:(unsigned char)c);",
                   "int c = input.ReadByte(); tape[dp] = (byte)(c==-1?0:c);",
                   "tape[dp] = getchar",
                   "tape[dp] = getchar();"} -> "in"
    [] line.s \in {"for _ in range({n}): tape[dp] = getchar()",
                   "for i:=0; i<{n}; i++ { tape[dp] = getchar() }",
                   "for(int i=0;i<{n};++i){ int c=std::cin.get(); tape[dp]=(c==EOF?0:(unsigned char)c); }",
                   "for (int i=0;i<{n};i++) { int c = input.ReadByte(); tape[dp] = (byte)(c==-1?0:c); }",
                   "for i=1,{n} do tape[dp] = getchar() end",
                   "{n}.times { tape[dp] = getchar }",
                   "for _ in 0..{n} { tape[dp] = getchar(); }"} -> "inN"
    [] line.s \in {"tape[dp] = 0", "tape[dp] = 0;"} -> "clr"
    [] line.s \in {"while tape[dp] != 0:", "for tape[dp] != 0 {", "while(tape[dp] != 0){",
                   "while (tape[dp] != 0) {", "while tape[dp] ~= 0 do",
                   "while tape[dp] != 0", "while tape[dp] != 0 {"} -> "open"
    [] line.s = "end" \/ (line.s = "}" /\ line.ind >= 1) -> "close"
    [] line.s \in {"sys.stdout.buffer.write(bytes(out))", "return 0;",
                   "out.flush().unwrap();", "}}"}
         \/ (line.s = "}" /\ line.ind = 0) -> "halt"
    [] line.s = "" -> "blank"
    [] OTHER -> "pre"

\* the lines that declare the local c: "int c = ...;" of emit_cpp, emit_csharp
DeclaresC(line) ==
  line.s \in {"int c = std::cin.get(); tape[dp] = (c==EOF?0:(unsigned char)c);",
              "int c = input.ReadByte(); tape[dp] = (byte)(c==-1?0:c);"}

\* no line between lines i and j is indented less than d: with d the
\* indentation of both, they are statements of one block
NoneShallower(text, i, j, d) == \A k \in i..j : text[k].ind >= d

Min(a, b) == IF a <= b THEN a ELSE b

\* C++: two declarations of c in one block are a redefinition
CppRedeclares(text) ==
  \E i, j \in 1..Len(text) :
    /\ i < j /\ DeclaresC(text[i]) /\ DeclaresC(text[j])
    /\ text[i].ind = text[j].ind
    /\ NoneShallower(text, i, j, text[i].ind)

\* C#: a second declaration of c in the same block or in a block nested in
\* or enclosing the first one's is an error (CS0128, CS0136)
CsharpRedeclares(text) ==
  \E i, j \in 1..Len(text) :
    /\ i < j /\ DeclaresC(text[i]) /\ DeclaresC(text[j])
    /\ NoneShallower(text, i, j, Min(text[i].ind, text[j].ind))

\* the loop headers and closers nest: depth after the lines from i on
RECURSIVE Nests(_, _, _)
Nests(text, i, depth) ==
  IF i > Len(text) THEN depth = 0
  ELSE CASE Kind(text[i]) = "open" -> Nests(text, i + 1, depth + 1)
         [] Kind(text[i]) = "close" -> depth >= 1 /\ Nests(text, i + 1, depth - 1)
         [] OTHER -> Nests(text, i + 1, depth)

\* Python: a "while ...:" line needs an indented block on the next line
PyBlocksOk(text) ==
  \A i \in 1..Len(text) :
    Kind(text[i]) = "open" => (i < Len(text) /\ text[i + 1].ind = text[i].ind + 1)

\* Go and Rust: the constant {n} must be a value of the byte type
ByteConstantsOk(text) ==
  \A i \in 1..Len(text) : Kind(text[i]) \in {"add", "sub"} => text[i].n <= 255

\* Go: a declared local (tape) must be used; every statement but the pointer
\* moves uses it
GoUsesTape(text) ==
  \E i \in 1..Len(text) :
    Kind(text[i]) \in {"add", "sub", "out", "outN", "in", "inN", "clr", "open"}

\* whether the target's compiler or interpreter accepts the text
Accepts(lang, text) ==
  CASE lang = "python" -> PyBlocksOk(text)
    [] lang = "go"     -> Nests(text, 1, 0) /\ ByteConstantsOk(text) /\ GoUsesTape(text)
    [] lang = "cpp"    -> Nests(text, 1, 0) /\ ~CppRedeclares(text)
    [] lang = "csharp" -> Nests(text, 1, 0) /\ ~CsharpRedeclares(text)
    [] lang = "lua"    -> Nests(text, 1, 0)
    [] lang = "ruby"   -> Nests(text, 1, 0)
    [] lang = "rust"   -> Nests(text, 1, 0) /\ ByteConstantsOk(text)

\* index of the first cell: "local dp = 1" in Lua, 0 elsewhere
Base(lang) == IF lang = "lua" THEN 1 ELSE 0

\* the tape holds 0 wherever the function is not defined
Get(tape, i) == IF i \in DOMAIN tape THEN tape[i] ELSE 0

Set(tape, i, v) ==
  IF v = 0 THEN (IF (DOMAIN tape) \ {i} = {} THEN << >>
                 ELSE [j \in (DOMAIN tape) \ {i} |-> tape[j]])
  ELSE [j \in (DOMAIN tape) \cup {i} |-> IF j = i THEN v ELSE tape[j]]

\* the value the "add" ("sub": n negative) line of each target stores
CellAdd(lang, v, n) ==
  CASE lang \in {"python", "cpp", "csharp", "ruby"} -> (v + n) % 256   \* (int) & 255
    [] lang = "go"   -> (((v + (n % 256)) % 256)) % 256    \* byte + byte, then int & 255
    [] lang = "lua"  -> (v + n) % 256                      \* floored %
    [] lang = "rust" -> (v + (n % 256)) % 256              \* u8 wrapping_add / _sub

\* first line after the prelude: past the last line that is neither a
\* statement of the token loop nor an end of the program
StartPc(text) ==
  LET pre == {i \in 1..Len(text) : Kind(text[i]) = "pre"}
      last == IF pre = {} THEN 0 ELSE CHOOSE i \in pre : \A j \in pre : j <= i
      rest == {i \in (last + 1)..Len(text) : Kind(text[i]) # "blank"}
  IN  IF rest = {} THEN Len(text) + 1
      ELSE CHOOSE i \in rest : \A j \in rest : i <= j

\* the closer matching the header at line i - 1, scanning from line i
RECURSIVE MatchClose(_, _, _)
MatchClose(text, i, depth) ==
  IF i > Len(text) THEN i
  ELSE CASE Kind(text[i]) = "open" -> MatchClose(text, i + 1, depth + 1)
         [] Kind(text[i]) = "close" ->
              IF depth = 0 THEN i ELSE MatchClose(text, i + 1, depth - 1)
         [] OTHER -> MatchClose(text, i + 1, depth)

\* the header matching the closer at line i + 1, scanning back from line i
RECURSIVE MatchOpen(_, _, _)
MatchOpen(text, i, depth) ==
  IF i < 1 THEN 1
  ELSE CASE Kind(text[i]) = "close" -> MatchOpen(text, i - 1, depth + 1)
         [] Kind(text[i]) = "open" ->
              IF depth = 0 THEN i ELSE MatchOpen(text, i - 1, depth - 1)
         [] OTHER -> MatchOpen(text, i - 1, depth)

\* Python: the line control reaches after the statement or the loop at line
\* i, which is indented d: the next line at that level, or, when the block
\* ends there, the header of the enclosing loop
PyNext(text, i, d) ==
  LET after == {j \in (i + 1)..Len(text) : text[j].ind <= d}
      j == CHOOSE x \in after : \A y \in after : x <= y
      heads == {h \in 1..i : Kind(text[h]) = "open" /\ text[h].ind = d - 1}
  IN  IF text[j].ind = d THEN j
      ELSE CHOOSE h \in heads : \A y \in heads : y <= h

\* the line after a statement that is not a loop header or closer
After(lang, text, i) ==
  IF lang = "python" THEN PyNext(text, i, text[i].ind) ELSE i + 1

\* the machine state a program starts in, or the refusal of its text
Load(lang, text) ==
  [status |-> IF Accepts(lang, text) THEN "run" ELSE "compile_error",
   pc |-> StartPc(text), dp |-> Base(lang), tape |-> << >>, out |-> << >>, ip |-> 1]

\* one statement of a running program
Step(lang, text, st, input) ==
  IF st.pc > Len(text) THEN [st EXCEPT !.status = "halted"]
  ELSE
  LET line == text[st.pc]
      k == Kind(line)
      cell == Get(st.tape, st.dp)
      next == After(lang, text, st.pc)
      moved == IF k = "right" THEN st.dp + line.n ELSE st.dp - line.n
      avail == Len(input) - st.ip + 1
      reads == IF k = "in" THEN 1 ELSE line.n
  IN  CASE k \in {"right", "left"} ->
             IF moved < Base(lang) \/ moved > Base(lang) + TapeSize - 1
             THEN [st EXCEPT !.status = "oob", !.dp = moved]
             ELSE IF moved - Base(lang) > MaxDp
             THEN [st EXCEPT !.status = "cut", !.dp = moved]
             ELSE [st EXCEPT !.dp = moved, !.pc = next]
        [] k = "add" ->
             [st EXCEPT !.tape = Set(st.tape, st.dp, CellAdd(lang, cell, line.n)), !.pc = next]
        [] k = "sub" ->
             [st EXCEPT !.tape = Set(st.tape, st.dp, CellAdd(lang, cell, 0 - line.n)), !.pc = next]
        [] k \in {"out", "outN"} ->
             LET count == IF k = "out" THEN 1 ELSE line.n IN
             IF Len(st.out) + count > MaxOut
             THEN [st EXCEPT !.status = "cut"]
             ELSE [st EXCEPT !.out = st.out \o Rep(cell, count), !.pc = next]
        [] k \in {"in", "inN"} ->
             \* getchar() reads one byte, 0 at the end of the stream
             [st EXCEPT !.tape = Set(st.tape, st.dp,
                                     IF reads <= avail THEN input[st.ip + reads - 1] ELSE 0),
                        !.ip = st.ip + Min(reads, Max(avail, 0)),
                        !.pc = next]
        [] k = "clr" -> [st EXCEPT !.tape = Set(st.tape, st.dp, 0), !.pc = next]
        [] k = "open" ->
             IF cell # 0 THEN [st EXCEPT !.pc = st.pc + 1]
             ELSE IF lang = "python" THEN [st EXCEPT !.pc = PyNext(text, st.pc, line.ind)]
             ELSE [st EXCEPT !.pc = MatchClose(text, st.pc + 1, 0) + 1]
        [] k = "close" -> [st EXCEPT !.pc = MatchOpen(text, st.pc - 1, 0)]
        [] OTHER -> [st EXCEPT !.status = "halted"]

\* the programs written, in the order of the registry
Written ==
  LET keys == SelectSeq(ExpandAll, LAMBDA k : code[TARGETS[k].name] # << >>) IN
  [i \in 1..Len(keys) |-> [lang |-> TARGETS[keys[i]].name, text |-> code[TARGETS[keys[i]].name]]]

\* every program written is started on the same input bytes
LoadAll ==
  /\ pc = "done"
  /\ jobs' = Written
  /\ m' = [i \in 1..Len(jobs') |-> Load(jobs'[i].lang, jobs'[i].text)]
  /\ pc' = "run"
  /\ UNCHANGED <<src, stdin, choice, ops, folded, toks, queue, code, calls, ran>>

\* the Python program written, and the Python program of the same tokens
\* before desugar
LoadRef ==
  /\ pc = "done"
  /\ jobs' = << [lang |-> "python", text |-> code["python"]],
                [lang |-> "python", text |-> emit_python(folded)] >>
  /\ m' = [i \in 1..Len(jobs') |-> Load(jobs'[i].lang, jobs'[i].text)]
  /\ pc' = "run"
  /\ UNCHANGED <<src, stdin, choice, ops, folded, toks, queue, code, calls, ran>>

\* every program still running executes its next statement
RunStep ==
  /\ pc = "run"
  /\ \E i \in 1..Len(m) : m[i].status = "run"
  /\ m' = [i \in 1..Len(m) |->
             IF m[i].status = "run" THEN Step(jobs[i].lang, jobs[i].text, m[i], stdin)
             ELSE m[i]]
  /\ UNCHANGED <<src, stdin, choice, pc, ops, folded, toks, queue, code, calls, ran, jobs>>

\* syntactically balanced: every ] closes an open [, and no [ stays open
Balanced(s) ==
  LET opens(i) == Cardinality({k \in 1..i : s[k] = "["})
      closes(i) == Cardinality({k \in 1..i : s[k] = "]"})
  IN  /\ \A i \in 1..Len(s) : closes(i) <= opens(i)
      /\ closes(Len(s)) = opens(Len(s))

AllDone == pc = "run" /\ \A i \in 1..Len(m) : m[i].status # "run"

(***************************************************************************)
(* Every target's program of one source, run on the same input             *)
(***************************************************************************)
WrapSplits == {0, 1, 128, 255, 256}

\* 256 increments of cell 0, as one run or as two runs kept apart
WrapInputs ==
  {Rep("+", a) \o sep \o Rep("+", 256 - a) :
     a \in WrapSplits, sep \in {<< >>, <<".">>, <<">", "<">>}}

ExecInputs == Strings(BF_OPS, MaxExecLen) \cup WrapInputs

InitExec == Start("read", "0", ExecInputs, {<< >>, <<65>>})

NextExec ==
  \/ Compile
  \/ EmitOne
  \/ LoadAll
  \/ RunStep

SpecExec == InitExec /\ [][NextExec]_vars

Finished(i) == pc = "run" /\ i <= Len(m) /\ m[i].status # "run"

\* a run that the model's bounds MaxDp and MaxOut ended, or whose data
\* pointer left the tape
Outside(i) == m[i].status \in {"cut", "oob"}

(***************************************************************************)
(* C1: cross-target equivalence                                            *)
(***************************************************************************)
\* the bytes a run has written to its standard output when it has ended; a
\* text its compiler or interpreter refuses writes none
Stream(i) == IF m[i].status = "halted" THEN m[i].out ELSE << >>

\* C1: for a balanced program whose pointer stays inside the tape, once
\* every target's program has been run on the input they have all written
\* the same output stream.
CrossTargetEquivalent ==
  (AllDone /\ Balanced(ops) /\ \A i \in 1..Len(m) : ~Outside(i)) =>
    \A i \in 1..Len(m) : Stream(i) = Stream(1)

(***************************************************************************)
(* C6: wraparound                                                          *)
(***************************************************************************)
\* C6: every target's program of a source that increments cell 0 by 256 in
\* all, in one token or in several, ends with the cell at 0; every target's
\* program of the source "-" ends with the cell at 255.
WrapsAround ==
  AllDone =>
    \A i \in 1..Len(m) :
      /\ src \in WrapInputs =>
           m[i].status = "halted" /\ Get(m[i].tape, Base(jobs[i].lang)) = 0
      /\ src = <<"-">> =>
           m[i].status = "halted" /\ Get(m[i].tape, Base(jobs[i].lang)) = 255

(***************************************************************************)
(* C9: the local c of emit_cpp and emit_csharp                             *)
(***************************************************************************)
\* C9: no program emitted by emit_cpp or emit_csharp declares the local c
\* twice in one block.
DeclaresCOnce ==
  \A nm \in {"cpp", "csharp"} : ~CppRedeclares(code[nm])

(***************************************************************************)
(* C10: the loops of emit_python                                           *)
(***************************************************************************)
\* C10: in the Python program of a balanced source every "while" header is
\* followed at once by a line indented one level deeper, and the final
\* sys.stdout.buffer.write line is not indented.
PythonLoopsHaveBody ==
  (code["python"] # << >> /\ Balanced(ops)) =>
    LET L == code["python"] IN
    /\ PyBlocksOk(L)
    /\ L[Len(L) - 1] = [ind |-> 0, s |-> "sys.stdout.buffer.write(bytes(out))", n |-> 0]

(***************************************************************************)
(* C5: a loop-end with no open loop-start                                  *)
(***************************************************************************)
\* the number of ']' tokens that close an open '['
RECURSIVE MatchedEnds(_, _, _)
MatchedEnds(tokens, i, depth) ==
  IF i > Len(tokens) THEN 0
  ELSE CASE tokens[i][1] = "[" -> MatchedEnds(tokens, i + 1, depth + 1)
         [] tokens[i][1] = "]" ->
              IF depth >= 1 THEN 1 + MatchedEnds(tokens, i + 1, depth - 1)
              ELSE MatchedEnds(tokens, i + 1, 0)
         [] OTHER -> MatchedEnds(tokens, i + 1, depth)

HasUnmatchedEnd(tokens) ==
  Cardinality({i \in 1..Len(tokens) : tokens[i][1] = "]"}) > MatchedEnds(tokens, 1, 0)

Closers(text) == {i \in 1..Len(text) : Kind(text[i]) = "close"}

\* C5: for tokens with an unmatched loop-end every emitter returns a text,
\* never indents below its floor, and emits a closing line only for the
\* loop-ends that close an open loop.
UnmatchedEndClosesNothing ==
  \A nm \in Names :
    (code[nm] # << >> /\ HasUnmatchedEnd(toks)) =>
      /\ \A i \in 1..Len(code[nm]) :
           Kind(code[nm][i]) \in {"right", "left", "add", "sub", "out", "in", "clr", "open", "close"}
             => code[nm][i].ind >= IndFloor(nm)
      /\ Cardinality(Closers(code[nm])) = IF nm = "python" THEN 0 ELSE MatchedEnds(toks, 1, 0)

(***************************************************************************)
(* C8: the Python program of the desugared tokens against the Python       *)
(* program of the tokens as folded                                         *)
(***************************************************************************)
\* cell 0 is brought to 0, 1, 5 or 255 before the program proper
EquivPrefixes == {<< >>, <<"+">>, Rep("+", 5), <<"-">>}

EquivInputs ==
  {p \o b : p \in EquivPrefixes,
            b \in {s \in Strings({"[", "-", "]", ">", "."}, MaxEquivLen) : Balanced(s)}}

InitEquiv == Start("read", "1", EquivInputs, {<< >>})

NextEquiv ==
  \/ Compile
  \/ EmitOne
  \/ LoadRef
  \/ RunStep

\* a started program keeps executing
SpecEquiv == InitEquiv /\ [][NextEquiv]_vars /\ WF_vars(RunStep)

Result(i) == [status |-> m[i].status, tape |-> m[i].tape, dp |-> m[i].dp, out |-> m[i].out]

\* the source is some increments or decrements of cell 0, then the loop [-]
ClearLoopOnly ==
  /\ Len(ops) >= 3
  /\ SubSeq(ops, Len(ops) - 2, Len(ops)) = <<"[", "-", "]">>
  /\ \A i \in 1..(Len(ops) - 3) : ops[i] \in {"+", "-"}

\* C8: the program of desugar(tokens) (run 1) and the program of the tokens
\* themselves (run 2) end, when both have ended, with the same tape, pointer
\* and output; either ends whenever the other does; and the loop [-] alone
\* always ends, with the current cell at 0.
DesugarPreserves ==
  /\ [](AllDone => Result(1) = Result(2))
  /\ (Finished(1) ~> Finished(2))
  /\ (Finished(2) ~> Finished(1))
  /\ ((pc = "run" /\ ClearLoopOnly) ~>
        (Finished(2) /\ m[2].status = "halted" /\ Get(m[2].tape, m[2].dp) = 0))

DesugarPreservesWitness ==
  /\ AllDone
  /\ \E i \in 1..Len(toks) : toks[i] = <<"CLR", 1>>
  /\ ops[1] \in {"+", "-"}
  /\ m[2].status = "halted"
  /\ m[2].out # << >>

====
